---- MODULE Spec2Model ----
(***************************************************************************)
(* Model of server.go of chezwatts.gallery: the hit counter               *)
(* (hitCountByPage, hitCountModifyLock, increaseHitCount, saveStats,       *)
(* restoreStats), the daily stats log (updateStatsLog) and the request     *)
(* handlers that call them.  Files are modelled by their bytes (strings),  *)
(* so that template rendering, CSV writing and CSV reading are real        *)
(* conversions.                                                            *)
(***************************************************************************)
EXTENDS Integers, Sequences, FiniteSets, TLC

(***************************************************************************)
(* Bounds of the model.                                                    *)
(***************************************************************************)
\* number of page-view requests served in one run
MaxCalls == 2
\* number of timer ticks of updateStatsLogDaily in one run
MaxTicks == 2
\* number of file operations that may fail in one run
MaxIOErrors == 1

(***************************************************************************)
(* String helpers (Go strings are modelled as TLA+ strings).               *)
(***************************************************************************)
RECURSIVE Contains(_, _)
\* strings.ContainsRune / strings.ContainsAny for a one-character needle set
Contains(s, chars) ==
    IF s = "" THEN FALSE
    ELSE IF Head(s) \in chars THEN TRUE ELSE Contains(Tail(s), chars)

RECURSIVE TrimLeft(_, _)
TrimLeft(s, c) ==
    IF s = "" THEN ""
    ELSE IF Head(s) = c THEN TrimLeft(Tail(s), c) ELSE s

RECURSIVE TrimRight(_, _)
TrimRight(s, c) ==
    IF s = "" THEN ""
    ELSE IF SubSeq(s, Len(s), Len(s)) = c
         THEN TrimRight(SubSeq(s, 1, Len(s) - 1), c)
         ELSE s

\* strings.Trim(s, c) for a one-character cutset
Trim(s, c) == TrimRight(TrimLeft(s, c), c)

\* a sanitiser that strips the leading slashes only
santitiseLeftOnly(page) == TrimLeft(page, "/")

\* strings.Trim(page, "/")
santitisePageName(page) == Trim(page, "/")

Digits == <<"0", "1", "2", "3", "4", "5", "6", "7", "8", "9">>

RECURSIVE ItoaNat(_)
ItoaNat(n) ==
    IF n < 10 THEN Digits[n + 1]
    ELSE ItoaNat(n \div 10) \o Digits[(n % 10) + 1]

\* fmt.Sprint(int) / the template's rendering of an int
Itoa(n) == IF n < 0 THEN "-" \o ItoaNat(0 - n) ELSE ItoaNat(n)

DigitValue(c) == CHOOSE d \in 0..9 : Digits[d + 1] = c
IsDigit(c) == \E d \in 0..9 : Digits[d + 1] = c

RECURSIVE AllDigits(_)
AllDigits(s) == IF s = "" THEN TRUE ELSE IsDigit(Head(s)) /\ AllDigits(Tail(s))

RECURSIVE DigitsValue(_, _)
DigitsValue(s, acc) ==
    IF s = "" THEN acc ELSE DigitsValue(Tail(s), acc * 10 + DigitValue(Head(s)))

\* strconv.Atoi: optional sign, then one or more decimal digits
Atoi(s) ==
    LET body == IF s # "" /\ Head(s) \in {"+", "-"} THEN Tail(s) ELSE s
        neg  == s # "" /\ Head(s) = "-"
    IN  IF body = "" \/ ~AllDigits(body)
        THEN [ok |-> FALSE, val |-> 0]
        ELSE [ok |-> TRUE,
              val |-> IF neg THEN 0 - DigitsValue(body, 0) ELSE DigitsValue(body, 0)]

\* html/template's escaper for a value in text context
HTMLEscapeChar(c) ==
    CASE c = "&"  -> "&amp;"
      [] c = "<"  -> "&lt;"
      [] c = ">"  -> "&gt;"
      [] c = "\"" -> "&#34;"
      [] c = "'"  -> "&#39;"
      [] c = "+"  -> "&#43;"
      [] OTHER    -> c

RECURSIVE HTMLEscape(_)
HTMLEscape(s) ==
    IF s = "" THEN "" ELSE HTMLEscapeChar(Head(s)) \o HTMLEscape(Tail(s))

HexDigits == <<"0", "1", "2", "3", "4", "5", "6", "7", "8", "9",
               "A", "B", "C", "D", "E", "F">>
IsHex(c) == \E d \in 1..16 : HexDigits[d] = c
HexValue(c) == (CHOOSE d \in 1..16 : HexDigits[d] = c) - 1

\* the characters the model's percent-escapes decode to (byte value -> char)
ByteChar(b) ==
    CASE b = 38 -> "&"
      [] b = 44 -> ","
      [] b = 47 -> "/"
      [] OTHER  -> "?"

RECURSIVE QueryUnescape(_)
\* url.QueryUnescape: "+" is a space, "%XX" a byte, a malformed escape an error
QueryUnescape(s) ==
    IF s = "" THEN [ok |-> TRUE, val |-> ""]
    ELSE IF Head(s) = "%"
         THEN IF Len(s) < 3 \/ ~IsHex(SubSeq(s, 2, 2)) \/ ~IsHex(SubSeq(s, 3, 3))
              THEN [ok |-> FALSE, val |-> ""]
              ELSE LET rest == QueryUnescape(SubSeq(s, 4, Len(s)))
                       b == 16 * HexValue(SubSeq(s, 2, 2)) + HexValue(SubSeq(s, 3, 3))
                   IN  [ok |-> rest.ok, val |-> ByteChar(b) \o rest.val]
         ELSE LET rest == QueryUnescape(Tail(s))
                  c == IF Head(s) = "+" THEN " " ELSE Head(s)
              IN  [ok |-> rest.ok, val |-> c \o rest.val]

(***************************************************************************)
(* encoding/csv, for fields that hold no line break.                       *)
(***************************************************************************)
RECURSIVE SplitLines(_, _)
\* the lines of a text, without their terminators ("\r\n" counts as "\n")
SplitLines(s, cur) ==
    IF s = "" THEN (IF cur = "" THEN <<>> ELSE <<cur>>)
    ELSE IF Head(s) = "\n"
         THEN <<TrimRight(cur, "\r")>> \o SplitLines(Tail(s), "")
         ELSE SplitLines(Tail(s), cur \o Head(s))

RECURSIVE ParseQuoted(_, _, _)
RECURSIVE ParseBare(_, _, _)

\* csv.Reader.readRecord inside a quoted field; fields = those already read
ParseQuoted(s, acc, fields) ==
    IF s = "" THEN [ok |-> FALSE, fields |-> <<>>]
    ELSE IF Head(s) = "\""
         THEN LET rest == Tail(s)
              IN  IF rest = "" THEN [ok |-> TRUE, fields |-> Append(fields, acc)]
                  ELSE IF Head(rest) = "\""
                       THEN ParseQuoted(Tail(rest), acc \o "\"", fields)
                  ELSE IF Head(rest) = ","
                       THEN IF Tail(rest) # "" /\ Head(Tail(rest)) = "\""
                            THEN ParseQuoted(Tail(Tail(rest)), "", Append(fields, acc))
                            ELSE ParseBare(Tail(rest), "", Append(fields, acc))
                  ELSE [ok |-> FALSE, fields |-> <<>>]
         ELSE ParseQuoted(Tail(s), acc \o Head(s), fields)

\* csv.Reader.readRecord inside an unquoted field
ParseBare(s, acc, fields) ==
    IF s = "" THEN [ok |-> TRUE, fields |-> Append(fields, acc)]
    ELSE IF Head(s) = ","
         THEN IF Tail(s) # "" /\ Head(Tail(s)) = "\""
              THEN ParseQuoted(Tail(Tail(s)), "", Append(fields, acc))
              ELSE ParseBare(Tail(s), "", Append(fields, acc))
    ELSE IF Head(s) = "\"" THEN [ok |-> FALSE, fields |-> <<>>]
    ELSE ParseBare(Tail(s), acc \o Head(s), fields)

\* one record of a line
ParseRecord(line) ==
    IF Head(line) = "\"" THEN ParseQuoted(Tail(line), "", <<>>)
    ELSE ParseBare(line, "", <<>>)

RECURSIVE ParseLines(_, _)
\* the records of the non-empty lines; ok is FALSE when a line is malformed
ParseLines(lines, recs) ==
    IF lines = <<>> THEN [ok |-> TRUE, records |-> recs]
    ELSE IF Head(lines) = "" THEN ParseLines(Tail(lines), recs)
    ELSE LET r == ParseRecord(Head(lines))
         IN  IF ~r.ok THEN [ok |-> FALSE, records |-> <<>>]
             ELSE ParseLines(Tail(lines), Append(recs, r.fields))

\* csv.Reader.ReadAll with FieldsPerRecord = 0: every record must have as
\* many fields as the first one
ReadAll(text) ==
    LET p == ParseLines(SplitLines(text, ""), <<>>)
    IN  IF ~p.ok THEN [ok |-> FALSE, records |-> <<>>]
        ELSE IF \E i \in 1..Len(p.records) : Len(p.records[i]) # Len(p.records[1])
             THEN [ok |-> FALSE, records |-> <<>>]
             ELSE p

RECURSIVE DoubleQuotes(_)
DoubleQuotes(s) ==
    IF s = "" THEN ""
    ELSE (IF Head(s) = "\"" THEN "\"\"" ELSE Head(s)) \o DoubleQuotes(Tail(s))

\* csv.Writer.fieldNeedsQuotes
fieldNeedsQuotes(field) ==
    IF field = "" THEN FALSE
    ELSE \/ field = "\\."
         \/ Contains(field, {",", "\"", "\r", "\n"})
         \/ Head(field) = " "

WriteField(field) ==
    IF fieldNeedsQuotes(field) THEN "\"" \o DoubleQuotes(field) \o "\"" ELSE field

RECURSIVE WriteRecord(_)
WriteRecord(rec) ==
    IF rec = <<>> THEN "\n"
    ELSE IF Len(rec) = 1 THEN WriteField(rec[1]) \o "\n"
    ELSE WriteField(rec[1]) \o "," \o WriteRecord(Tail(rec))

RECURSIVE WriteAll(_)
\* csv.Writer.WriteAll
WriteAll(records) ==
    IF records = <<>> THEN "" ELSE WriteRecord(Head(records)) \o WriteAll(Tail(records))

(***************************************************************************)
(* The environment: the galleries directory and the request URIs.          *)
(***************************************************************************)
\* directories below galleriesRoot ("" is galleriesRoot itself)
ExistingDirs == {"", "a", "total", "a&b", "a,b", "Date"}
\* regular files below galleriesRoot
ExistingFiles == {"a/preview.jpg"}
\* r.RequestURI[9:] of the requests to /gallery/...
GalleryURIs == {"/a/", "total", "a%26b", "a%2Cb", "Date", "a/preview.jpg", "nope", "%zz"}
\* those of them requested while the stats log is followed
LogURIs == {"/a/", "a%2Cb", "Date"}

\* path.Join(galleriesRoot, gallery), relative to galleriesRoot, for names
\* without ".", ".." or doubled inner slashes
PathJoin(gallery) == Trim(gallery, "/")

\* the outcome of os.Stat on a path below galleriesRoot
Stat(path) ==
    IF path \in ExistingDirs THEN "dir"
    ELSE IF path \in ExistingFiles THEN "file"
    ELSE "notexist"

\* getGalleryExists: !os.IsNotExist(err) of os.Stat
getGalleryExists(gallery) == Stat(PathJoin(gallery)) # "notexist"

(***************************************************************************)
(* The hit counter.                                                        *)
(***************************************************************************)
\* hitCountByPage[page] of a Go map: the zero value for a missing key
Get(m, page) == IF page \in DOMAIN m THEN m[page] ELSE 0

\* m[page] += amount
AddTo(m, page, amount) ==
    [q \in DOMAIN m \cup {page} |-> IF q = page THEN Get(m, page) + amount ELSE m[q]]

\* the body of increaseHitCount
IncreaseMap(m, page, amount) ==
    AddTo(AddTo(m, santitisePageName(page), amount), "total", amount)

RECURSIVE Perms(_)
Perms(S) ==
    IF S = {} THEN {<<>>}
    ELSE UNION {{<<x>> \o q : q \in Perms(S \ {x})} : x \in S}

\* an order by ascending hit count
LessAscending(a, b) == a.HitCount < b.HitCount

\* ByHits.Less
Less(a, b) == a.HitCount > b.HitCount

\* the results sort.Sort(ByHits(result)) can give for the entries of m: every
\* order of the keys (map iteration order is random, the sort is not stable)
\* in which no entry is Less than the one before it
ViewModels(m) ==
    {vm \in {[i \in 1..Len(o) |-> [Page |-> o[i], HitCount |-> m[o[i]]]] :
                 o \in Perms(DOMAIN m)} :
        \A i \in 1..(Len(vm) - 1) : ~Less(vm[i + 1], vm[i])}

RECURSIVE Render(_)
\* stats.csv.tmpl executed over a view model: a line "page,count" per entry,
\* the page escaped by html/template
Render(vm) ==
    IF vm = <<>> THEN ""
    ELSE HTMLEscape(Head(vm).Page) \o "," \o Itoa(Head(vm).HitCount) \o "\n"
         \o Render(Tail(vm))

\* a write of data at offset 0 of a file that holds old
WriteAt0(old, data) ==
    IF Len(data) >= Len(old) THEN data
    ELSE data \o SubSeq(old, Len(data) + 1, Len(old))

(***************************************************************************)
(* The stats log.                                                          *)
(***************************************************************************)
\* fmt.Sprint(time.Now().Date()) on day d of the run
DateStr(d) == "2020 January " \o Itoa(d)

RECURSIVE indexOfFrom(_, _, _)
indexOfFrom(word, data, k) ==
    IF data = <<>> THEN -1
    ELSE IF word = Head(data) THEN k
    ELSE indexOfFrom(word, Tail(data), k + 1)

\* indexOf counting the cells from 1
indexOfOneBased(word, data) == indexOfFrom(word, data, 1)

\* indexOf: the 0-based index of the first cell equal to word, or -1
indexOf(word, data) == indexOfFrom(word, data, 0)

\* the body of the loop without the "0" appended to the other records
LogStepNoBackfill(st, gallery) ==
    LET headerRow == st.records[1]
        columnIndex == indexOf(gallery.Page, headerRow)
    IN  IF columnIndex < 0
        THEN LET grown == [i \in 1..Len(st.records) |->
                              IF i = 1 THEN Append(headerRow, gallery.Page)
                              ELSE st.records[i]]
                 nr == Append(st.newRecord, "0")
             IN  [records |-> grown,
                  newRecord |-> [nr EXCEPT ![Len(grown[1])] = Itoa(gallery.HitCount)]]
        ELSE [records |-> st.records,
              newRecord |-> [st.newRecord EXCEPT ![columnIndex + 1] =
                                                     Itoa(gallery.HitCount)]]

\* the body of the loop with the other records refilled with "0" when a
\* column is added
LogStepClobber(st, gallery) ==
    LET headerRow == st.records[1]
        columnIndex == indexOf(gallery.Page, headerRow)
    IN  IF columnIndex < 0
        THEN LET grown == [i \in 1..Len(st.records) |->
                              IF i = 1 THEN Append(headerRow, gallery.Page)
                              ELSE [j \in 1..(Len(st.records[i]) + 1) |-> "0"]]
                 nr == Append(st.newRecord, "0")
             IN  [records |-> grown,
                  newRecord |-> [nr EXCEPT ![Len(grown[1])] = Itoa(gallery.HitCount)]]
        ELSE [records |-> st.records,
              newRecord |-> [st.newRecord EXCEPT ![columnIndex + 1] =
                                                     Itoa(gallery.HitCount)]]

\* the body of the loop of updateStatsLog for one entry of the view model;
\* st = [records, newRecord]
LogStep(st, gallery) ==
    LET headerRow == st.records[1]
        columnIndex == indexOf(gallery.Page, headerRow)
    IN  IF columnIndex < 0
        THEN LET grown == [i \in 1..Len(st.records) |->
                              IF i = 1 THEN Append(headerRow, gallery.Page)
                              ELSE Append(st.records[i], "0")]
                 nr == Append(st.newRecord, "0")
             IN  [records |-> grown,
                  newRecord |-> [nr EXCEPT ![Len(grown[1])] = Itoa(gallery.HitCount)]]
        ELSE [records |-> st.records,
              newRecord |-> [st.newRecord EXCEPT ![columnIndex + 1] =
                                                     Itoa(gallery.HitCount)]]

RECURSIVE LogLoop(_, _)
LogLoop(st, stats) ==
    IF stats = <<>> THEN st ELSE LogLoop(LogStep(st, Head(stats)), Tail(stats))

\* make([]string, numCols) with the date in column 0
NewRecord(numCols, date) == [i \in 1..numCols |-> IF i = 1 THEN date ELSE ""]

(***************************************************************************)
(* restoreStats as a function of the bytes of stats.csv.                   *)
(***************************************************************************)
RECURSIVE RestoreRows(_, _)
\* the loop of restoreStats over the records, from counter m; ok is FALSE
\* when it panics
RestoreRows(m, rows) ==
    IF rows = <<>> THEN [ok |-> TRUE, counts |-> m]
    ELSE LET row == Head(rows)
         IN  IF row[1] = "total" THEN RestoreRows(m, Tail(rows))
             ELSE IF Len(row) < 2 \/ ~Atoi(row[2]).ok
                  THEN [ok |-> FALSE, counts |-> m]
                  ELSE RestoreRows(IncreaseMap(m, row[1], Atoi(row[2]).val), Tail(rows))

\* restoreStats on an empty counter
Restored(text) ==
    LET r == ReadAll(text)
    IN  IF ~r.ok THEN [ok |-> FALSE, counts |-> [q \in {} |-> 0]]
        ELSE RestoreRows([q \in {} |-> 0], r.records)

(***************************************************************************)
(* State.                                                                  *)
(***************************************************************************)
VARIABLES
    alive,              \* the process runs
    hitCountByPage,     \* the counter map
    hitCountModifyLock, \* the goroutine that holds the mutex, or "free"
    statsFile,          \* the bytes of stats.csv
    statsLogFile,       \* stats_log.csv: [exists, data]
    pc,                 \* the position of main and of each request goroutine
    call,               \* their request and the locals of increaseHitCount/saveStats
    restoreRows,        \* restoreStats: the records not yet processed
    tick,               \* the position and the locals of updateStatsLog
    today,              \* the day time.Now() falls on
    nCalls,             \* page-view requests started
    nTicks,             \* timer ticks started
    nIOErrors,          \* file operations that failed
    sumAmounts,         \* the sum of amount over all increaseHitCount bodies run
    last                \* how the request that ended last ended

vars == <<alive, hitCountByPage, hitCountModifyLock, statsFile, statsLogFile, pc,
          call, restoreRows, tick, today, nCalls, nTicks, nIOErrors, sumAmounts, last>>

Requests == {"r1", "r2"}
Goroutines == {"main"} \cup Requests

\* body: what http.ServeFile has read of stats_log.csv for the response
NoCall == [handler |-> "none", uri |-> "", page |-> "", amount |-> 0, vm |-> <<>>,
           body |-> [exists |-> FALSE, data |-> ""]]
\* first: the number of records the first tick read (0 before any tick)
NoTick == [pc |-> "wait", before |-> <<>>, records |-> <<>>, newRecord |-> <<>>,
           stats |-> <<>>, first |-> 0]
\* make(map[string]int)
EmptyMap == [q \in {} |-> 0]

\* the stats.csv files the process may find at startup
InitialStatsFiles == {"", "a,2\ntotal,2\n"}
\* the stats_log.csv files the process may find at startup
InitialLogFiles == {[exists |-> FALSE, data |-> ""],
                    [exists |-> TRUE, data |-> "Date,a\n2020 January 1,3\n"]}

\* stats_log.csv files that updateStatsLog cannot read a header from: an
\* empty file, a row with fewer fields than the header, a quote in an
\* unquoted field
UnreadableLogFiles == {[exists |-> TRUE, data |-> ""],
                       [exists |-> TRUE, data |-> "Date,a\n2020 January 1\n"],
                       [exists |-> TRUE, data |-> "Date,a\"b\n"]}

\* the state when main starts, stats_log.csv being one of logs
Boot(logs) ==
    /\ alive = TRUE
    /\ hitCountByPage = EmptyMap
    /\ hitCountModifyLock = "free"
    /\ statsFile \in InitialStatsFiles
    /\ statsLogFile \in logs
    /\ pc = [g \in Goroutines |-> IF g = "main" THEN "restore_open" ELSE "idle"]
    /\ call = [g \in Goroutines |-> NoCall]
    /\ restoreRows = <<>>
    /\ tick = NoTick
    /\ today = 1
    /\ nCalls = 0
    /\ nTicks = 0
    /\ nIOErrors = 0
    /\ sumAmounts = 0
    /\ last = "none"

Init == Boot(InitialLogFiles)

Serving == alive /\ pc["main"] = "serving"

(***************************************************************************)
(* restoreStats, run by main before the server starts.                     *)
(***************************************************************************)
\* os.Open, csv.ReadAll; a malformed file panics
RestoreOpen ==
    /\ alive /\ pc["main"] = "restore_open"
    /\ LET r == ReadAll(statsFile)
       IN  IF r.ok
           THEN /\ restoreRows' = r.records
                /\ pc' = [pc EXCEPT !["main"] = "restore_loop"]
                /\ UNCHANGED alive
           ELSE /\ alive' = FALSE
                /\ UNCHANGED <<restoreRows, pc>>
    /\ UNCHANGED <<hitCountByPage, hitCountModifyLock, statsFile, statsLogFile, call,
                   tick, today, nCalls, nTicks, nIOErrors, sumAmounts, last>>

\* one iteration of the loop over the records, up to the call of
\* increaseHitCount; after the last record main goes on to serve
RestoreNext ==
    /\ alive /\ pc["main"] = "restore_loop"
    /\ IF restoreRows = <<>>
       THEN /\ pc' = [pc EXCEPT !["main"] = "serving"]
            /\ UNCHANGED <<alive, restoreRows, call>>
       ELSE LET row == Head(restoreRows)
                page == row[1]
            IN  IF page = "total"
                THEN /\ restoreRows' = Tail(restoreRows)
                     /\ UNCHANGED <<alive, pc, call>>
                ELSE IF Len(row) < 2 \/ ~Atoi(row[2]).ok
                THEN /\ alive' = FALSE
                     /\ UNCHANGED <<restoreRows, pc, call>>
                ELSE /\ restoreRows' = Tail(restoreRows)
                     /\ call' = [call EXCEPT !["main"] =
                                    [NoCall EXCEPT !.handler = "restore",
                                                   !.page = page,
                                                   !.amount = Atoi(row[2]).val]]
                     /\ pc' = [pc EXCEPT !["main"] = "ihc_lock"]
                     /\ UNCHANGED alive
    /\ UNCHANGED <<hitCountByPage, hitCountModifyLock, statsFile, statsLogFile,
                   tick, today, nCalls, nTicks, nIOErrors, sumAmounts, last>>

(***************************************************************************)
(* The request handlers, up to their call of increaseHitCount.             *)
(***************************************************************************)
indexHandler(g) ==
    /\ Serving /\ pc[g] = "idle" /\ nCalls < MaxCalls
    /\ nCalls' = nCalls + 1
    /\ call' = [call EXCEPT ![g] = [NoCall EXCEPT !.handler = "index", !.uri = "/",
                                                  !.page = "index", !.amount = 1]]
    /\ pc' = [pc EXCEPT ![g] = "ihc_lock"]
    /\ UNCHANGED <<alive, hitCountByPage, hitCountModifyLock, statsFile, statsLogFile,
                   restoreRows, tick, today, nTicks, nIOErrors, sumAmounts, last>>

galleryHandler(g, uri) ==
    /\ Serving /\ pc[g] = "idle" /\ nCalls < MaxCalls
    /\ nCalls' = nCalls + 1
    /\ LET gallery == QueryUnescape(uri)
       IN  IF ~gallery.ok \/ ~getGalleryExists(gallery.val)
           THEN \* http.Redirect(w, r, "/", http.StatusFound); return
                /\ last' = "redirect"
                /\ UNCHANGED <<call, pc>>
           ELSE /\ call' = [call EXCEPT ![g] =
                               [NoCall EXCEPT !.handler = "gallery", !.uri = uri,
                                              !.page = gallery.val, !.amount = 1]]
                /\ pc' = [pc EXCEPT ![g] = "ihc_lock"]
                /\ UNCHANGED last
    /\ UNCHANGED <<alive, hitCountByPage, hitCountModifyLock, statsFile, statsLogFile,
                   restoreRows, tick, today, nTicks, nIOErrors, sumAmounts>>

(***************************************************************************)
(* increaseHitCount and the saveStats it defers, run by main (from         *)
(* restoreStats) and by the request goroutines (from the handlers).        *)
(***************************************************************************)
\* hitCountModifyLock.Lock()
IhcLock(g) ==
    /\ alive /\ pc[g] = "ihc_lock"
    /\ hitCountModifyLock = "free"
    /\ hitCountModifyLock' = g
    /\ pc' = [pc EXCEPT ![g] = "ihc_body"]
    /\ UNCHANGED <<alive, hitCountByPage, statsFile, statsLogFile, call, restoreRows,
                   tick, today, nCalls, nTicks, nIOErrors, sumAmounts, last>>

\* a body whose deferred saveStats runs before the Unlock
IhcBodyKeepLock(g) ==
    /\ alive /\ pc[g] = "ihc_body"
    /\ hitCountByPage' = IncreaseMap(hitCountByPage, call[g].page, call[g].amount)
    /\ sumAmounts' = sumAmounts + call[g].amount
    /\ pc' = [pc EXCEPT ![g] = "save_create"]
    /\ UNCHANGED <<alive, hitCountModifyLock, statsFile, statsLogFile, call,
                   restoreRows, tick, today, nCalls, nTicks, nIOErrors, last>>

\* the body, then the deferred hitCountModifyLock.Unlock(); the deferred
\* saveStats runs after it
IhcBody(g) ==
    /\ alive /\ pc[g] = "ihc_body"
    /\ hitCountByPage' = IncreaseMap(hitCountByPage, call[g].page, call[g].amount)
    /\ sumAmounts' = sumAmounts + call[g].amount
    /\ hitCountModifyLock' = "free"
    /\ pc' = [pc EXCEPT ![g] = "save_create"]
    /\ UNCHANGED <<alive, statsFile, statsLogFile, call, restoreRows, tick, today,
                   nCalls, nTicks, nIOErrors, last>>

\* a panic that ends the process in whatever goroutine it is raised
PanicFatal(g) ==
    /\ alive' = FALSE
    /\ UNCHANGED <<pc, call, last>>

\* a panic in goroutine g: net/http recovers it in a request goroutine and
\* goes on serving; in main it ends the process
Panic(g) ==
    IF g = "main"
    THEN /\ alive' = FALSE
         /\ UNCHANGED <<pc, call, last>>
    ELSE /\ pc' = [pc EXCEPT ![g] = "idle"]
         /\ call' = [call EXCEPT ![g] = NoCall]
         /\ last' = "panic"
         /\ UNCHANGED alive

\* saveStats: os.Create truncates stats.csv
SaveCreate(g) ==
    /\ alive /\ pc[g] = "save_create"
    /\ statsFile' = ""
    /\ pc' = [pc EXCEPT ![g] = "save_lock"]
    /\ UNCHANGED <<alive, hitCountByPage, hitCountModifyLock, statsLogFile, call,
                   restoreRows, tick, today, nCalls, nTicks, nIOErrors, sumAmounts, last>>

\* saveStats: os.Create fails
SaveCreateFail(g) ==
    /\ alive /\ pc[g] = "save_create"
    /\ nIOErrors < MaxIOErrors
    /\ nIOErrors' = nIOErrors + 1
    /\ Panic(g)
    /\ UNCHANGED <<hitCountByPage, hitCountModifyLock, statsFile, statsLogFile,
                   restoreRows, tick, today, nCalls, nTicks, sumAmounts>>

\* getStatsPageViewModel called by saveStats: Lock
SaveLock(g) ==
    /\ alive /\ pc[g] = "save_lock"
    /\ hitCountModifyLock = "free"
    /\ hitCountModifyLock' = g
    /\ pc' = [pc EXCEPT ![g] = "save_vm"]
    /\ UNCHANGED <<alive, hitCountByPage, statsFile, statsLogFile, call, restoreRows,
                   tick, today, nCalls, nTicks, nIOErrors, sumAmounts, last>>

\* getStatsPageViewModel called by saveStats: the body and the Unlock
SaveVm(g) ==
    /\ alive /\ pc[g] = "save_vm"
    /\ \E vm \in ViewModels(hitCountByPage) :
           call' = [call EXCEPT ![g].vm = vm]
    /\ hitCountModifyLock' = "free"
    /\ pc' = [pc EXCEPT ![g] = "save_exec"]
    /\ UNCHANGED <<alive, hitCountByPage, statsFile, statsLogFile, restoreRows, tick,
                   today, nCalls, nTicks, nIOErrors, sumAmounts, last>>

\* saveStats: ts.Execute(f, vm) writes the rendering from offset 0 of the
\* file it created; then increaseHitCount returns, to the loop of
\* restoreStats or to the handler, which renders its page
SaveExec(g) ==
    /\ alive /\ pc[g] = "save_exec"
    /\ statsFile' = WriteAt0(statsFile, Render(call[g].vm))
    /\ IF g = "main"
       THEN /\ pc' = [pc EXCEPT ![g] = "restore_loop"]
            /\ UNCHANGED last
       ELSE /\ pc' = [pc EXCEPT ![g] = "idle"]
            /\ last' = "page"
    /\ call' = [call EXCEPT ![g] = NoCall]
    /\ UNCHANGED <<alive, hitCountByPage, hitCountModifyLock, statsLogFile,
                   restoreRows, tick, today, nCalls, nTicks, nIOErrors, sumAmounts>>

\* saveStats: ts.Execute fails
SaveExecFail(g) ==
    /\ alive /\ pc[g] = "save_exec"
    /\ nIOErrors < MaxIOErrors
    /\ nIOErrors' = nIOErrors + 1
    /\ Panic(g)
    /\ UNCHANGED <<hitCountByPage, hitCountModifyLock, statsFile, statsLogFile,
                   restoreRows, tick, today, nCalls, nTicks, sumAmounts>>

(***************************************************************************)
(* statsHandler and statsLogHandler, run by the request goroutines.        *)
(***************************************************************************)
\* a request for /stats arrives: statsHandler calls getStatsPageViewModel
statsHandler(g) ==
    /\ Serving /\ pc[g] = "idle" /\ nCalls < MaxCalls
    /\ nCalls' = nCalls + 1
    /\ call' = [call EXCEPT ![g] = [NoCall EXCEPT !.handler = "stats", !.uri = "/stats"]]
    /\ pc' = [pc EXCEPT ![g] = "stats_lock"]
    /\ UNCHANGED <<alive, hitCountByPage, hitCountModifyLock, statsFile, statsLogFile,
                   restoreRows, tick, today, nTicks, nIOErrors, sumAmounts, last>>

\* getStatsPageViewModel called by statsHandler: Lock
StatsLock(g) ==
    /\ alive /\ pc[g] = "stats_lock"
    /\ hitCountModifyLock = "free"
    /\ hitCountModifyLock' = g
    /\ pc' = [pc EXCEPT ![g] = "stats_vm"]
    /\ UNCHANGED <<alive, hitCountByPage, statsFile, statsLogFile, call, restoreRows,
                   tick, today, nCalls, nTicks, nIOErrors, sumAmounts, last>>

\* getStatsPageViewModel called by statsHandler: the body and the Unlock
StatsVm(g) ==
    /\ alive /\ pc[g] = "stats_vm"
    /\ \E vm \in ViewModels(hitCountByPage) :
           call' = [call EXCEPT ![g].vm = vm]
    /\ hitCountModifyLock' = "free"
    /\ pc' = [pc EXCEPT ![g] = "stats_render"]
    /\ UNCHANGED <<alive, hitCountByPage, statsFile, statsLogFile, restoreRows, tick,
                   today, nCalls, nTicks, nIOErrors, sumAmounts, last>>

\* statsHandler: renderTemplate("stats", vm, w); the request is over
StatsRender(g) ==
    /\ alive /\ pc[g] = "stats_render"
    /\ pc' = [pc EXCEPT ![g] = "idle"]
    /\ call' = [call EXCEPT ![g] = NoCall]
    /\ last' = "page"
    /\ UNCHANGED <<alive, hitCountByPage, hitCountModifyLock, statsFile, statsLogFile,
                   restoreRows, tick, today, nCalls, nTicks, nIOErrors, sumAmounts>>

\* a request for /stats-log arrives
statsLogHandler(g) ==
    /\ Serving /\ pc[g] = "idle" /\ nCalls < MaxCalls
    /\ nCalls' = nCalls + 1
    /\ call' = [call EXCEPT ![g] = [NoCall EXCEPT !.handler = "stats-log",
                                                  !.uri = "/stats-log"]]
    /\ pc' = [pc EXCEPT ![g] = "log_lock"]
    /\ UNCHANGED <<alive, hitCountByPage, hitCountModifyLock, statsFile, statsLogFile,
                   restoreRows, tick, today, nTicks, nIOErrors, sumAmounts, last>>

\* statsLogHandler: hitCountModifyLock.Lock()
LogLock(g) ==
    /\ alive /\ pc[g] = "log_lock"
    /\ hitCountModifyLock = "free"
    /\ hitCountModifyLock' = g
    /\ pc' = [pc EXCEPT ![g] = "log_serve"]
    /\ UNCHANGED <<alive, hitCountByPage, statsFile, statsLogFile, call, restoreRows,
                   tick, today, nCalls, nTicks, nIOErrors, sumAmounts, last>>

\* statsLogHandler: http.ServeFile reads stats_log.csv as it is on disk
LogServe(g) ==
    /\ alive /\ pc[g] = "log_serve"
    /\ call' = [call EXCEPT ![g].body = statsLogFile]
    /\ pc' = [pc EXCEPT ![g] = "log_unlock"]
    /\ UNCHANGED <<alive, hitCountByPage, hitCountModifyLock, statsFile, statsLogFile,
                   restoreRows, tick, today, nCalls, nTicks, nIOErrors, sumAmounts, last>>

\* statsLogHandler: the deferred hitCountModifyLock.Unlock(); the request is
\* over
LogUnlock(g) ==
    /\ alive /\ pc[g] = "log_unlock"
    /\ hitCountModifyLock' = "free"
    /\ pc' = [pc EXCEPT ![g] = "idle"]
    /\ call' = [call EXCEPT ![g] = NoCall]
    /\ last' = "file"
    /\ UNCHANGED <<alive, hitCountByPage, statsFile, statsLogFile, restoreRows, tick,
                   today, nCalls, nTicks, nIOErrors, sumAmounts>>

(***************************************************************************)
(* updateStatsLog, run by the goroutine of updateStatsLogDaily.            *)
(***************************************************************************)
\* a tick that starts a new log when it cannot read the one on disk
TickOpenLenient ==
    /\ Serving /\ tick.pc = "wait" /\ nTicks < MaxTicks
    /\ nTicks' = nTicks + 1
    /\ today' = today + 1
    /\ LET r == IF statsLogFile.exists THEN ReadAll(statsLogFile.data)
                ELSE [ok |-> TRUE, records |-> <<<<"Date">>>>]
           recs == IF ~r.ok \/ r.records = <<>> THEN <<<<"Date">>>> ELSE r.records
       IN  /\ tick' = [pc |-> "stats_lock",
                       before |-> recs,
                       records |-> recs,
                       newRecord |-> NewRecord(Len(recs[1]), DateStr(today')),
                       stats |-> <<>>,
                       first |-> IF nTicks = 0 THEN Len(recs) ELSE tick.first]
           /\ UNCHANGED alive
    /\ UNCHANGED <<hitCountByPage, hitCountModifyLock, statsFile, statsLogFile, pc,
                   call, restoreRows, nCalls, nIOErrors, sumAmounts, last>>

\* the timer fires; os.Open, csv.ReadAll, the new record.  A file that does
\* not parse is fatal (log.Fatal); one without records panics at records[0]
TickOpen ==
    /\ Serving /\ tick.pc = "wait" /\ nTicks < MaxTicks
    /\ nTicks' = nTicks + 1
    /\ today' = today + 1
    /\ LET r == IF statsLogFile.exists THEN ReadAll(statsLogFile.data)
                ELSE [ok |-> TRUE, records |-> <<<<"Date">>>>]
       IN  IF ~r.ok \/ r.records = <<>>
           THEN /\ alive' = FALSE
                /\ UNCHANGED tick
           ELSE /\ tick' = [pc |-> "stats_lock",
                            before |-> r.records,
                            records |-> r.records,
                            newRecord |-> NewRecord(Len(r.records[1]), DateStr(today')),
                            stats |-> <<>>,
                            first |-> IF nTicks = 0 THEN Len(r.records)
                                      ELSE tick.first]
                /\ UNCHANGED alive
    /\ UNCHANGED <<hitCountByPage, hitCountModifyLock, statsFile, statsLogFile, pc,
                   call, restoreRows, nCalls, nIOErrors, sumAmounts, last>>

\* getStatsPageViewModel called by updateStatsLog: Lock
TickLock ==
    /\ alive /\ tick.pc = "stats_lock"
    /\ hitCountModifyLock = "free"
    /\ hitCountModifyLock' = "ticker"
    /\ tick' = [tick EXCEPT !.pc = "stats"]
    /\ UNCHANGED <<alive, hitCountByPage, statsFile, statsLogFile, pc, call,
                   restoreRows, today, nCalls, nTicks, nIOErrors, sumAmounts, last>>

\* a tick that appends its record only when the counter has entries
TickBuildSkipEmpty ==
    /\ alive /\ tick.pc = "stats"
    /\ \E vm \in ViewModels(hitCountByPage) :
           LET st == LogLoop([records |-> tick.records, newRecord |-> tick.newRecord],
                             vm)
           IN  tick' = [tick EXCEPT !.pc = "create",
                                    !.stats = vm,
                                    !.newRecord = st.newRecord,
                                    !.records = IF vm = <<>> THEN st.records
                                                ELSE Append(st.records, st.newRecord)]
    /\ hitCountModifyLock' = "free"
    /\ UNCHANGED <<alive, hitCountByPage, statsFile, statsLogFile, pc, call,
                   restoreRows, today, nCalls, nTicks, nIOErrors, sumAmounts, last>>

\* getStatsPageViewModel: the body and the Unlock; then the loop over the
\* entries and the append of the new record
TickBuild ==
    /\ alive /\ tick.pc = "stats"
    /\ \E vm \in ViewModels(hitCountByPage) :
           LET st == LogLoop([records |-> tick.records, newRecord |-> tick.newRecord],
                             vm)
           IN  tick' = [tick EXCEPT !.pc = "create",
                                    !.stats = vm,
                                    !.newRecord = st.newRecord,
                                    !.records = Append(st.records, st.newRecord)]
    /\ hitCountModifyLock' = "free"
    /\ UNCHANGED <<alive, hitCountByPage, statsFile, statsLogFile, pc, call,
                   restoreRows, today, nCalls, nTicks, nIOErrors, sumAmounts, last>>

\* os.Create truncates (or creates) stats_log.csv
TickCreate ==
    /\ alive /\ tick.pc = "create"
    /\ statsLogFile' = [exists |-> TRUE, data |-> ""]
    /\ tick' = [tick EXCEPT !.pc = "write"]
    /\ UNCHANGED <<alive, hitCountByPage, hitCountModifyLock, statsFile, pc, call,
                   restoreRows, today, nCalls, nTicks, nIOErrors, sumAmounts, last>>

\* writer.WriteAll(records); the tick is over
TickWrite ==
    /\ alive /\ tick.pc = "write"
    /\ statsLogFile' = [exists |-> TRUE,
                        data |-> WriteAt0(statsLogFile.data, WriteAll(tick.records))]
    /\ tick' = [tick EXCEPT !.pc = "wait"]
    /\ UNCHANGED <<alive, hitCountByPage, hitCountModifyLock, statsFile, pc, call,
                   restoreRows, today, nCalls, nTicks, nIOErrors, sumAmounts, last>>

\* os.Create or WriteAll fails: log.Fatal
TickWriteFail ==
    /\ alive /\ tick.pc \in {"create", "write"}
    /\ nIOErrors < MaxIOErrors
    /\ nIOErrors' = nIOErrors + 1
    /\ alive' = FALSE
    /\ UNCHANGED <<hitCountByPage, hitCountModifyLock, statsFile, statsLogFile, pc,
                   call, restoreRows, tick, today, nCalls, nTicks, sumAmounts, last>>

\* main at startup
Startup ==
    \/ RestoreOpen
    \/ RestoreNext

\* a step of increaseHitCount or of its saveStats in goroutine g
Counting(g) ==
    \/ IhcLock(g)
    \/ IhcBody(g)
    \/ SaveCreate(g)
    \/ SaveLock(g)
    \/ SaveVm(g)
    \/ SaveExec(g)

\* a step of goroutine g in which a write of stats.csv fails
SaveFailure(g) ==
    \/ SaveCreateFail(g)
    \/ SaveExecFail(g)

\* a request arrives and is handled by goroutine g
Handler(g) ==
    \/ indexHandler(g)
    \/ \E uri \in GalleryURIs : galleryHandler(g, uri)

\* a step of statsHandler or of statsLogHandler in goroutine g
Reading(g) ==
    \/ StatsLock(g)
    \/ StatsVm(g)
    \/ StatsRender(g)
    \/ LogLock(g)
    \/ LogServe(g)
    \/ LogUnlock(g)

\* a step of updateStatsLog in which every file operation returns
TickStep ==
    \/ TickLock
    \/ TickBuild
    \/ TickCreate
    \/ TickWrite

\* a step of the goroutine of updateStatsLogDaily
Ticker ==
    \/ TickOpen
    \/ TickLock
    \/ TickBuild
    \/ TickCreate
    \/ TickWrite
    \/ TickWriteFail

(***************************************************************************)
(* Spec: the hit counter under concurrent requests (main and two request   *)
(* goroutines), with failing writes of stats.csv.                          *)
(***************************************************************************)
Next ==
    \/ Startup
    \/ \E g \in Requests : Handler(g)
    \/ \E g \in Goroutines : Counting(g)
    \/ \E g \in Goroutines : SaveFailure(g)

Spec == Init /\ [][Next]_vars

(***************************************************************************)
(* SpecLog: the stats log, written by the ticker while main and one        *)
(* request goroutine change the counter.                                   *)
(***************************************************************************)
NextLog ==
    \/ Startup
    \/ \E uri \in LogURIs : galleryHandler("r1", uri)
    \/ \E g \in {"main", "r1"} : Counting(g)
    \/ Ticker

SpecLog == Init /\ [][NextLog]_vars

(***************************************************************************)
(* SpecTick: the ticker beside requests for /, started on any log file,    *)
(* the unreadable ones included.                                           *)
(***************************************************************************)
InitTick == Boot(InitialLogFiles \cup UnreadableLogFiles)

NextTick ==
    \/ Startup
    \/ indexHandler("r1")
    \/ \E g \in {"main", "r1"} : Counting(g)
    \/ Ticker

SpecTick == InitTick /\ [][NextTick]_vars

(***************************************************************************)
(* SpecAll: the readers of the counter and of the log (/stats and          *)
(* /stats-log) and a writer of the counter (/) in one request goroutine,   *)
(* beside the ticker, after a startup that restores a stats.csv with rows  *)
(* and finds no stats_log.csv; every file operation returns.  While some   *)
(* started operation can take a step, one eventually does.                 *)
(***************************************************************************)
InitAll ==
    /\ Init
    /\ statsFile # ""
    /\ ~statsLogFile.exists

NextAll ==
    \/ Startup
    \/ indexHandler("r1")
    \/ statsHandler("r1")
    \/ statsLogHandler("r1")
    \/ \E g \in {"main", "r1"} : Counting(g)
    \/ Reading("r1")
    \/ TickOpen
    \/ TickStep

\* a step of an operation that has started
Progress ==
    \/ Startup
    \/ \E g \in {"main", "r1"} : Counting(g)
    \/ Reading("r1")
    \/ TickStep

Fairness == WF_vars(Progress)

SpecAll == InitAll /\ [][NextAll]_vars /\ Fairness

(***************************************************************************)
(* Properties of the hit counter (checked under Spec).                     *)
(***************************************************************************)
Range(f) == {f[i] : i \in DOMAIN f}

RECURSIVE SumOver(_, _)
\* the sum of m over the keys in S
SumOver(m, S) ==
    IF S = {} THEN 0
    ELSE LET x == CHOOSE x \in S : TRUE IN m[x] + SumOver(m, S \ {x})

\* C1: whatever increaseHitCount calls were made, the count under "total" is
\* the sum of the amounts of all calls.
C1_TotalIsSumOfAmounts == Get(hitCountByPage, "total") = sumAmounts

\* goroutine g has truncated stats.csv and not yet written it
InRewrite(g) == pc[g] \in {"save_lock", "save_vm", "save_exec"}

\* C2: a goroutine that truncates or writes stats.csv holds
\* hitCountModifyLock, and no two rewrites of the file overlap.
C2_RewritesUnderLock ==
    /\ \A g \in Goroutines :
           pc[g] \in {"save_create", "save_exec"} => hitCountModifyLock = g
    /\ \A g, h \in Goroutines : (InRewrite(g) /\ InRewrite(h)) => g = h

\* every increaseHitCount call made so far has returned, none by a panic
AllReturned ==
    /\ Serving
    /\ \A g \in Requests : pc[g] = "idle"
    /\ nIOErrors = 0
    /\ sumAmounts > 0

\* C3: once all increaseHitCount calls have returned, stats.csv holds exactly
\* one row per key of the counter, with the key's current count.
C3_FileIsSnapshot ==
    AllReturned => statsFile \in {Render(vm) : vm \in ViewModels(hitCountByPage)}

\* C8: saving a reachable counter and restoring the file on an empty counter
\* gives every page other than "total" its count back, and "total" the sum
\* of the restored counts.
C8_RoundTrip ==
    \A vm \in ViewModels(hitCountByPage) :
        LET r == Restored(Render(vm))
            pages == DOMAIN hitCountByPage \ {"total"}
        IN  /\ r.ok
            /\ DOMAIN r.counts \ {"total"} = pages
            /\ \A q \in pages : r.counts[q] = hitCountByPage[q]
            /\ Get(r.counts, "total") = SumOver(r.counts, DOMAIN r.counts \ {"total"})

\* the request names an existing directory below galleriesRoot
NamesExistingDir(uri) ==
    /\ QueryUnescape(uri).ok
    /\ Stat(PathJoin(QueryUnescape(uri).val)) = "dir"

\* C9: a gallery request whose name does not unescape or does not name an
\* existing directory is redirected and changes neither the counter nor
\* stats.csv: the goroutine never enters increaseHitCount.
C9_InvalidGalleryNotCounted ==
    [][\A g \in Requests, uri \in GalleryURIs :
          (galleryHandler(g, uri) /\ ~NamesExistingDir(uri))
              => /\ last' = "redirect"
                 /\ pc'[g] = "idle"
                 /\ UNCHANGED <<hitCountByPage, statsFile>>]_vars

LogRows == ParseLines(SplitLines(statsLogFile.data, ""), <<>>)

\* updateStatsLog has run to its end at least once, and is not running
TickDone == tick.pc = "wait" /\ tick.records # <<>>

IsPrefix(a, b) == Len(a) <= Len(b) /\ \A i \in 1..Len(a) : a[i] = b[i]

\* C4: when no tick is running, all the rows of stats_log.csv, the header
\* included, have the same number of columns.
C4_Rectangular ==
    (tick.pc = "wait" /\ statsLogFile.exists)
        => LET p == LogRows
           IN  /\ p.ok
               /\ \A i \in 1..Len(p.records) : Len(p.records[i]) = Len(p.records[1])

\* two ticks have completed and the log has grown columns
C4_Witness ==
    /\ TickDone /\ nTicks = 2
    /\ LET p == LogRows
       IN  Len(p.records) >= 3 /\ Len(p.records[1]) >= 3

\* C5: in the row a tick adds, every column other than Date whose page is
\* not in the counter snapshot holds "0".
C5_AbsentPagesAreZero ==
    TickDone =>
        LET rows == LogRows.records
            header == rows[1]
            new == rows[Len(rows)]
            pages == {tick.stats[k].Page : k \in 1..Len(tick.stats)}
        IN  \A i \in 2..Len(header) : header[i] \notin pages => new[i] = "0"

\* C6: after a tick every page of the counter snapshot is the name of exactly
\* one column, the added row holds the page's count there, and the rows that
\* were there before hold "0" in every column the tick added.
C6_ColumnGrowth ==
    TickDone =>
        LET rows == LogRows.records
            header == rows[1]
            new == rows[Len(rows)]
            before == tick.before
        IN  /\ \A k \in 1..Len(tick.stats) :
                   LET cols == {i \in 1..Len(header) : header[i] = tick.stats[k].Page}
                   IN  /\ Cardinality(cols) = 1
                       /\ \A i \in cols : new[i] = Itoa(tick.stats[k].HitCount)
            /\ \A i \in 1..Len(header) :
                   header[i] \notin Range(before[1])
                       => \A r \in 2..Len(before) : rows[r][i] = "0"

\* a tick added a column to a log that already had a data row
C6_Witness ==
    /\ TickDone
    /\ Len(tick.before) >= 2
    /\ \E k \in 1..Len(tick.stats) : tick.stats[k].Page \notin Range(tick.before[1])
    /\ \E k \in 1..Len(tick.stats) : tick.stats[k].Page \in Range(tick.before[1])

\* C7: a tick keeps what the log held: the header it read is a prefix of the
\* header it wrote, and each row it read is, in its place, a prefix of the
\* row it wrote.
C7_AppendOnly ==
    TickDone =>
        LET rows == LogRows.records
            before == tick.before
        IN  /\ Len(rows) >= Len(before)
            /\ \A r \in 1..Len(before) : IsPrefix(before[r], rows[r])

\* a tick rewrote a log that had data rows, with more columns than before
C7_Witness ==
    /\ TickDone
    /\ Len(tick.before) >= 2
    /\ Len(LogRows.records[1]) > Len(tick.before[1])

(***************************************************************************)
(* Page names (checked under Spec).                                        *)
(***************************************************************************)
\* C11: the keys of the counter are sanitised names; for the page p of a call
\* about to run its body, with x its sanitised name, increaseHitCount(p, n),
\* increaseHitCount(x, n) and increaseHitCount("/x/", n) change the counter in
\* the same way, and sanitising x again gives x.
C11_SanitisedNames ==
    /\ \A q \in DOMAIN hitCountByPage : santitisePageName(q) = q
    /\ \A g \in Goroutines :
           pc[g] = "ihc_body" =>
               LET p == call[g].page
                   n == call[g].amount
                   x == santitisePageName(p)
               IN  /\ santitisePageName(x) = x
                   /\ IncreaseMap(hitCountByPage, p, n) = IncreaseMap(hitCountByPage, x, n)
                   /\ IncreaseMap(hitCountByPage, "/" \o x \o "/", n)
                          = IncreaseMap(hitCountByPage, x, n)

\* a request for "/a/" was counted under the key "a", which the restored
\* row "a" had created
C11_Witness ==
    /\ \E g \in Requests : pc[g] = "save_create" /\ call[g].page = "/a/"
    /\ Get(hitCountByPage, "a") = 3
    /\ "/a/" \notin DOMAIN hitCountByPage

(***************************************************************************)
(* One row per tick (checked under SpecTick).                              *)
(***************************************************************************)
\* C12: when a tick has completed, the log holds one record more than the
\* tick read, whatever the counter held; the log holds the records the first
\* tick read (the header alone for an absent file) plus one data row per tick.
C12_OneRowPerTick ==
    TickDone =>
        LET p == LogRows
        IN  /\ p.ok
            /\ Len(p.records) = Len(tick.before) + 1
            /\ Len(p.records) = tick.first + nTicks

\* two ticks on an empty counter, from an absent file: header and two rows
C12_Witness ==
    /\ TickDone /\ nTicks = 2 /\ tick.first = 1
    /\ tick.stats = <<>>
    /\ Len(LogRows.records) = 3

(***************************************************************************)
(* Properties of the readers (checked under SpecAll).                      *)
(***************************************************************************)
\* vm holds one entry per key of m, with the key's count, in an order of
\* non-increasing counts
IsSortedSnapshot(vm, m) ==
    /\ Len(vm) = Cardinality(DOMAIN m)
    /\ \A q \in DOMAIN m :
           \E i \in 1..Len(vm) : vm[i] = [Page |-> q, HitCount |-> m[q]]
    /\ \A i \in 1..(Len(vm) - 1) : vm[i].HitCount >= vm[i + 1].HitCount

\* C13: whenever getStatsPageViewModel returns (to saveStats, to statsHandler
\* or to updateStatsLog), its result holds exactly one entry per key of the
\* counter, with the key's current count, ordered by non-increasing count.
C13_SortedSnapshot ==
    [][/\ \A g \in Goroutines :
              (pc[g] \in {"save_vm", "stats_vm"} /\ pc'[g] # pc[g])
                  => IsSortedSnapshot(call'[g].vm, hitCountByPage)
       /\ (tick.pc = "stats" /\ tick'.pc = "create")
              => IsSortedSnapshot(tick'.stats, hitCountByPage)]_vars

\* /stats got three entries, the first with more hits than the last
C13_Witness ==
    \E g \in Requests :
        /\ pc[g] = "stats_render"
        /\ Len(call[g].vm) >= 3
        /\ call[g].vm[1].HitCount > call[g].vm[Len(call[g].vm)].HitCount

\* no goroutine that is about to Lock hitCountModifyLock holds it
NoSelfAcquire ==
    /\ \A g \in Goroutines :
           pc[g] \in {"ihc_lock", "save_lock", "stats_lock", "log_lock"}
               => hitCountModifyLock # g
    /\ tick.pc = "stats_lock" => hitCountModifyLock # "ticker"

\* C15: no goroutine locks hitCountModifyLock while it holds it, and every
\* operation that has started (the restore at startup, a request, a tick)
\* eventually completes.
C15_DeadlockFree ==
    /\ []NoSelfAcquire
    /\ (pc["main"] # "serving") ~> (pc["main"] = "serving")
    /\ \A g \in Requests : (pc[g] # "idle") ~> (pc[g] = "idle")
    /\ (tick.pc # "wait") ~> (tick.pc = "wait")

\* the second tick holds the lock while the saveStats of a request waits for
\* it, after a /stats-log request has been served
C15_Witness ==
    /\ hitCountModifyLock = "ticker" /\ nTicks = 2
    /\ pc["r1"] = "save_lock"
    /\ last = "file"

\* C17: what a /stats-log request reads of stats_log.csv is a complete log:
\* a header and rows of the header's length, never the truncated file.
C17_ServedLogComplete ==
    \A g \in Requests :
        (pc[g] = "log_unlock" /\ call[g].body.exists)
            => LET r == ReadAll(call[g].body.data)
               IN  r.ok /\ r.records # <<>>

(***************************************************************************)
(* The log file a tick finds (checked under SpecTick).                     *)
(***************************************************************************)
\* updateStatsLog gets no header row from the existing file f
Unreadable(f) ==
    /\ f.exists
    /\ LET r == ReadAll(f.data) IN ~r.ok \/ r.records = <<>>

\* C14: a tick that finds no stats_log.csv goes on with the header "Date"
\* alone; a tick that finds a file it cannot read a header row from ends the
\* process and leaves the file as it is; the file changes only in a tick
\* that has read the log and appended its new row to the records.
C14_UnreadableLogIsFatal ==
    [][/\ (nTicks' = nTicks + 1 /\ ~statsLogFile.exists)
              => /\ alive'
                 /\ tick'.before = <<<<"Date">>>>
                 /\ statsLogFile' = statsLogFile
       /\ (nTicks' = nTicks + 1 /\ Unreadable(statsLogFile))
              => /\ ~alive'
                 /\ statsLogFile' = statsLogFile
       /\ (statsLogFile' # statsLogFile)
              => /\ tick.pc \in {"create", "write"}
                 /\ Len(tick.records) = Len(tick.before) + 1]_vars

\* the first tick found an empty stats_log.csv: the process is over, the
\* file is still empty
C14_Witness ==
    /\ ~alive /\ nTicks = 1
    /\ tick = NoTick
    /\ statsLogFile = [exists |-> TRUE, data |-> ""]

(***************************************************************************)
(* The date column (checked under SpecLog).                                *)
(***************************************************************************)
\* C16: in the row a tick adds, column 0 holds the date of the tick, whatever
\* the names of the pages in the counter.
C16_DateColumnKept ==
    TickDone =>
        LET rows == LogRows.records
        IN  rows[Len(rows)][1] = DateStr(today)

(***************************************************************************)
(* stats.csv across a crash (checked under Spec).                          *)
(***************************************************************************)
\* C18: no step of the program takes anything away from what a restart
\* would restore from stats.csv: a file that held rows is not left empty, the
\* file on disk can be restored, and every page gets at least the count it
\* would have got from the file as it was before the step.
C18_CrashDurable ==
    [][LET before == Restored(statsFile)
           after == Restored(statsFile')
       IN  /\ statsFile # "" => statsFile' # ""
           /\ after.ok
           /\ \A q \in DOMAIN before.counts :
                  Get(after.counts, q) >= before.counts[q]]_vars

====
